---- MODULE Spec2Model ----
(***************************************************************************)
(* Video translation simulation server (POST /create, GET /status) and the *)
(* exponential backoff polling strategy of the client library.             *)
(*                                                                         *)
(* JavaScript values are modelled as far as the code depends on them:      *)
(* numbers are rationals n/d, strings are sequences of one-character       *)
(* strings, and the operators +, -, *, >, Math.floor and || follow the     *)
(* language's coercion rules (a string operand turns + into                *)
(* concatenation, every other arithmetic operator converts to a number).   *)
(***************************************************************************)
EXTENDS Integers, Sequences, FiniteSets

VARIABLES
    env,        \* process.env: MIN_DELAY, MAX_DELAY, ERROR_RATE as set at start
    videos,     \* the server's job table: own properties of the object `videos`
    now,        \* the wall clock, what Date.now() returns
    res,        \* the response to the latest request, with the handler's locals
    poll,       \* the state of one polling session (a call of a strategy)
    calls       \* the POST /create requests of the clients, each with its answer

vars == <<env, videos, now, res, poll, calls>>

-----------------------------------------------------------------------------
(* Bounds of the model *)

\* Clock readings range over 0..MaxTime and the instants around job deadlines.
MaxTime == 1
\* Math.random() returns one of 0/RandDenom .. (RandDenom-1)/RandDenom.
RandDenom == 2
\* Digits kept after the decimal point when a number is converted to a string.
MaxFracDigits == 3
\* Pending status checks after which a polling session is no longer followed.
MaxPolls == 5

-----------------------------------------------------------------------------
(* JavaScript values *)

Num(n, d) == [t |-> "num", n |-> n, d |-> d, s |-> <<>>]
Number(n) == Num(n, 1)
Str(s) == [t |-> "str", n |-> 0, d |-> 1, s |-> s]

\* The JavaScript value undefined, where a string is expected.
Undefined == "(undefined)"

Digits == <<"0", "1", "2", "3", "4", "5", "6", "7", "8", "9">>

DigitOf(k) == Digits[k + 1]

DigitVal(c) == CHOOSE k \in 0..9 : Digits[k + 1] = c

Abs(n) == IF n < 0 THEN -n ELSE n

RECURSIVE Pow10(_)
Pow10(k) == IF k = 0 THEN 1 ELSE 10 * Pow10(k - 1)

\* Number::toString of a non-negative integer.
RECURSIVE NatToString(_)
NatToString(n) ==
    IF n < 10 THEN <<DigitOf(n)>>
    ELSE Append(NatToString(n \div 10), DigitOf(n % 10))

\* The digits of rem/d after the decimal point, at most k of them.
RECURSIVE FracToString(_, _, _)
FracToString(rem, d, k) ==
    IF rem = 0 \/ k = 0 THEN <<>>
    ELSE <<DigitOf((rem * 10) \div d)>> \o FracToString((rem * 10) % d, d, k - 1)

\* Number::toString of the rational n/d (d > 0), in decimal notation.
NumberToString(q) ==
    LET a == Abs(q.n)
        sign == IF q.n < 0 THEN <<"-">> ELSE <<>>
        whole == NatToString(a \div q.d)
    IN  IF a % q.d = 0 THEN sign \o whole
        ELSE sign \o whole \o <<".">> \o FracToString(a % q.d, q.d, MaxFracDigits)

\* The value of a sequence of decimal digits ("" is 0).
RECURSIVE DigitsToNat(_)
DigitsToNat(s) ==
    IF s = <<>> THEN 0
    ELSE 10 * DigitsToNat(SubSeq(s, 1, Len(s) - 1)) + DigitVal(s[Len(s)])

\* StringToNumber of a decimal literal: [-]digits[.digits]
StringToNumber(s) ==
    LET neg == s # <<>> /\ s[1] = "-"
        body == IF neg THEN Tail(s) ELSE s
        dots == {i \in 1..Len(body) : body[i] = "."}
        dot == IF dots = {} THEN Len(body) + 1 ELSE CHOOSE i \in dots : TRUE
        whole == SubSeq(body, 1, dot - 1)
        frac == SubSeq(body, dot + 1, Len(body))
        mag == DigitsToNat(whole \o frac)
    IN  Num(IF neg THEN -mag ELSE mag, Pow10(Len(frac)))

ToNumber(v) == IF v.t = "str" THEN StringToNumber(v.s) ELSE v

ToString(v) == IF v.t = "str" THEN v.s ELSE NumberToString(v)

\* a + b: concatenation as soon as one operand is a string.
Plus(a, b) ==
    IF a.t = "str" \/ b.t = "str" THEN Str(ToString(a) \o ToString(b))
    ELSE Num(a.n * b.d + b.n * a.d, a.d * b.d)

\* a - b: both operands are converted to numbers.
Minus(a, b) ==
    LET x == ToNumber(a)
        y == ToNumber(b)
    IN  Num(x.n * y.d - y.n * x.d, x.d * y.d)

\* a * b
Times(a, b) ==
    LET x == ToNumber(a)
        y == ToNumber(b)
    IN  Num(x.n * y.n, x.d * y.d)

\* a > b, for a number against a number or a numeric string.
GreaterThan(a, b) ==
    LET x == ToNumber(a)
        y == ToNumber(b)
    IN  x.n * y.d > y.n * x.d

\* Math.floor(v): the argument is converted to a number first.
MathFloor(v) ==
    LET x == ToNumber(v)
    IN  IF x.n >= 0 THEN x.n \div x.d ELSE -((-x.n + x.d - 1) \div x.d)

\* Math.ceil(v) of a number.
MathCeil(v) == -MathFloor(Num(-v.n, v.d))

\* The operators below bind their operands by `\in {...}`, so that an
\* operand is worked out once, as an argument of a JavaScript call is.

RECURSIVE GCD(_, _)
GCD(a, b) ==
    IF b = 0 THEN a
    ELSE CHOOSE g \in {GCD(p[1], p[2]) : p \in {<<b, a % b>>}} : TRUE

\* The same number in lowest terms.
Reduce(v) ==
    CHOOSE r \in {Num(w.n \div GCD(Abs(w.n), w.d), w.d \div GCD(Abs(w.n), w.d)) :
                    w \in {v}} : TRUE

\* The numerator of v over the denominator d, a multiple of v's own.
Scaled(v, d) == v.n * (d \div v.d)

LCM(a, b) == (a \div GCD(a, b)) * b

\* a <= b and a === b of two numbers.
LessEq(a, b) ==
    \E p \in {<<a, b>>} : \E l \in {LCM(p[1].d, p[2].d)} :
        Scaled(p[1], l) <= Scaled(p[2], l)

SameNumber(a, b) ==
    \E p \in {<<a, b>>} : \E l \in {LCM(p[1].d, p[2].d)} :
        Scaled(p[1], l) = Scaled(p[2], l)

MathMax(a, b) ==
    CHOOSE m \in {IF LessEq(p[1], p[2]) THEN p[2] ELSE p[1] : p \in {<<a, b>>}} : TRUE

MathMin(a, b) ==
    CHOOSE m \in {IF LessEq(p[1], p[2]) THEN p[1] ELSE p[2] : p \in {<<a, b>>}} : TRUE

\* Math.random(): a number in [0, 1).
MathRandom == {Num(k, RandDenom) : k \in 0..(RandDenom - 1)}

-----------------------------------------------------------------------------
(* Server configuration *)

DefaultMinDelay == 5000
DefaultMaxDelay == 50000
DefaultErrorRateNum == 3
DefaultErrorRateDen == 100

\* An environment variable: unset, or set to a string (possibly empty).
Unset == [set |-> FALSE, s |-> <<>>]
SetTo(s) == [set |-> TRUE, s |-> s]

\* process.env.X || dflt: an unset or empty variable gives the default number,
\* any other the variable's string.
OrDefault(e, dflt) == IF e.set /\ e.s # <<>> THEN Str(e.s) ELSE dflt

MIN_DELAY == OrDefault(env.MIN_DELAY, Number(DefaultMinDelay))
MAX_DELAY == OrDefault(env.MAX_DELAY, Number(DefaultMaxDelay))
ERROR_RATE == OrDefault(env.ERROR_RATE, Num(DefaultErrorRateNum, DefaultErrorRateDen))

Environment(min, max, rate) == [MIN_DELAY |-> min, MAX_DELAY |-> max, ERROR_RATE |-> rate]

\* The environments the server is started in: nothing set; delays of 0 and no
\* errors; delays of 1..2 and only errors; a minimum above the maximum; an
\* empty MIN_DELAY and a maximum just above the default minimum.
Environments ==
    {Environment(Unset, Unset, Unset),
     Environment(SetTo(<<"0">>), SetTo(<<"0">>), SetTo(<<"0">>)),
     Environment(SetTo(<<"1">>), SetTo(<<"2">>), SetTo(<<"1">>)),
     Environment(SetTo(<<"2">>), SetTo(<<"1">>), Unset),
     Environment(SetTo(<<>>), SetTo(<<"5", "0", "0", "1">>), SetTo(<<"0">>))}

-----------------------------------------------------------------------------
(* The job table *)

\* Property names every object inherits from Object.prototype.
ObjectPrototypeKeys ==
    {"constructor", "toString", "valueOf", "hasOwnProperty", "__proto__"}

\* videos[videoID] is an own property: a job record.
IsJob(videoID) == videoID \in DOMAIN videos

\* videos[videoID] is truthy: a job record, or a value inherited from
\* Object.prototype (`videos` is created by the literal {}).
Truthy(videoID) == IsJob(videoID) \/ videoID \in ObjectPrototypeKeys

\* A check for undefined only, which lets the empty string through.
FalsyUndefinedOnly(videoID) == videoID = Undefined

\* !videoID, for a string or undefined.
Falsy(videoID) == videoID = Undefined \/ videoID = ""

\* The video IDs requests carry.
VideoIDs == {"a", "b", "constructor", "", Undefined}

NoResponse ==
    [op |-> "none", videoID |-> Undefined, code |-> 0, body |-> "", at |-> 0]

Response(op, videoID, code, body) ==
    [op |-> op, videoID |-> videoID, code |-> code, body |-> body, at |-> now]

\* The instants the clock is read at: the first ones, those around a job's
\* deadline, and those up to and just past the expected completion of the
\* job a session polls.
ClockValues ==
    (0..MaxTime)
    \cup {videos[v].startTime + videos[v].delay : v \in DOMAIN videos}
    \cup {videos[v].startTime + videos[v].delay - 1 : v \in DOMAIN videos}
    \cup {poll.config.jobStartTime + poll.config.expectedCompletionTime + 1 - k :
             k \in 0..(MaxTime + 2)}

\* The clients that send a POST /create each.
Clients == {"c1", "c2"}

NoJob == [startTime |-> 0, delay |-> 0, status |-> "none"]

\* A client's request: not sent, sent (in flight), or done (answered), with the
\* answer's code and body and the job record the handler stored for it.
NoCall ==
    [state |-> "none", videoID |-> Undefined, code |-> 0, body |-> "", job |-> NoJob]

NoCalls == [c \in Clients |-> NoCall]

-----------------------------------------------------------------------------
(* POST /create *)

\* const delay = Math.floor(Math.random() * (MAX_DELAY - MIN_DELAY + 1) + MIN_DELAY)
RandomDelay(r) ==
    MathFloor(Plus(Times(r, Plus(Minus(MAX_DELAY, MIN_DELAY), Number(1))), MIN_DELAY))

\* The two branches swapped.
RandomStatusSwapped(r) == IF GreaterThan(r, ERROR_RATE) THEN "error" ELSE "pending"

\* const status = Math.random() > ERROR_RATE ? 'pending' : 'error'
RandomStatus(r) == IF GreaterThan(r, ERROR_RATE) THEN "pending" ELSE "error"

\* An assignment of a fresh table that holds the new job alone.
StoreAlone(videoID, job) == [v \in {videoID} |-> job]

\* videos[videoID] = { startTime: Date.now(), delay, status }
Store(videoID, job) ==
    [v \in DOMAIN videos \cup {videoID} |-> IF v = videoID THEN job ELSE videos[v]]

\* No uniqueness check at all.
AlreadyExistsSkipped(videoID) == FALSE

\* if (videos[videoID]): the uniqueness check.
AlreadyExists(videoID) == Truthy(videoID)

\* The handler up to its first return: no random number is drawn for a
\* request without videoID. A handler runs to its end without giving way to
\* another one (it has no await and takes no callback), so it is one step; it
\* reads and writes `videos` and the response only.
CreateInvalidHandler(videoID) ==
    /\ Falsy(videoID)
    /\ res' = Response("create", videoID, 400, "videoID is required")
    /\ UNCHANGED videos

CreateInvalid(videoID) ==
    /\ CreateInvalidHandler(videoID)
    /\ UNCHANGED <<calls, env, now, poll>>

\* The handler up to its second return: the two random numbers drawn before
\* the uniqueness check are dropped.
CreateDuplicateHandler(videoID) ==
    /\ ~Falsy(videoID)
    /\ AlreadyExists(videoID)
    /\ res' = Response("create", videoID, 400, "already exists")
    /\ UNCHANGED videos

CreateDuplicate(videoID) ==
    /\ CreateDuplicateHandler(videoID)
    /\ UNCHANGED <<calls, env, now, poll>>

\* The handler to its end; r1 and r2 are the two values of Math.random().
CreateJobHandler(videoID, r1, r2) ==
    LET delay == RandomDelay(r1)
        status == RandomStatus(r2)
    IN  /\ ~Falsy(videoID)
        /\ ~AlreadyExists(videoID)
        /\ videos' = Store(videoID,
                           [startTime |-> now, delay |-> delay, status |-> status])
        /\ res' = Response("create", videoID, 200, "added")

CreateJob(videoID, r1, r2) ==
    /\ CreateJobHandler(videoID, r1, r2)
    /\ UNCHANGED <<calls, env, now, poll>>

\* A client sends its request; it is in flight until the server handles it.
SendCreate(c, videoID) ==
    /\ calls[c].state = "none"
    /\ calls' = [calls EXCEPT ![c] = [NoCall EXCEPT !.state = "sent", !.videoID = videoID]]
    /\ UNCHANGED <<env, videos, now, res, poll>>

\* The server handles one of the requests in flight, whichever came in first,
\* and the client gets the answer.
HandleCreate(c) ==
    LET videoID == calls[c].videoID
    IN  /\ calls[c].state = "sent"
        /\ \/ CreateInvalidHandler(videoID)
           \/ CreateDuplicateHandler(videoID)
           \/ \E r1 \in MathRandom, r2 \in MathRandom : CreateJobHandler(videoID, r1, r2)
        /\ calls' = [calls EXCEPT ![c] =
                       [@ EXCEPT !.state = "done",
                                 !.code = res'.code,
                                 !.body = res'.body,
                                 !.job = IF res'.code = 200 THEN videos'[videoID] ELSE NoJob]]
        /\ UNCHANGED <<env, now, poll>>

Create ==
    \/ \E videoID \in VideoIDs : CreateInvalid(videoID)
    \/ \E videoID \in VideoIDs : CreateDuplicate(videoID)
    \/ \E videoID \in VideoIDs, r1 \in MathRandom, r2 \in MathRandom :
           CreateJob(videoID, r1, r2)

-----------------------------------------------------------------------------
(* GET /status *)

\* Without the test for 'pending'.
NextStatusAnyStatus(video, elapsedTime) ==
    IF elapsedTime >= video.delay THEN "completed" ELSE video.status

\* The status derived from the elapsed time on every call.
NextStatusDerived(video, elapsedTime) ==
    IF video.status = "error" THEN "error"
    ELSE IF elapsedTime >= video.delay THEN "completed" ELSE "pending"

\* With > for >=.
NextStatusStrict(video, elapsedTime) ==
    IF elapsedTime > video.delay /\ video.status = "pending"
    THEN "completed"
    ELSE video.status

\* The status the handler leaves in the job record and answers with.
NextStatus(video, elapsedTime) ==
    IF elapsedTime >= video.delay /\ video.status = "pending"
    THEN "completed"
    ELSE video.status

GetStatusHandler(videoID) ==
    IF Falsy(videoID) \/ ~Truthy(videoID)
    THEN /\ res' = Response("status", videoID, 404, "Video not found")
         /\ UNCHANGED videos
    ELSE IF IsJob(videoID)
    THEN LET video == videos[videoID]
             elapsedTime == now - video.startTime
             status == NextStatus(video, elapsedTime)
         IN  /\ videos' = [videos EXCEPT ![videoID].status = status]
             /\ res' = Response("status", videoID, 200, status)
    ELSE \* an inherited value: it has no startTime, delay or status
         /\ res' = Response("status", videoID, 200, Undefined)
         /\ UNCHANGED videos

GetStatus(videoID) ==
    /\ GetStatusHandler(videoID)
    /\ UNCHANGED <<calls, env, now, poll>>

-----------------------------------------------------------------------------
(* The clock *)

\* Time passes.
Tick ==
    /\ \E t \in ClockValues : t > now /\ now' = t
    /\ UNCHANGED <<calls, env, videos, res, poll>>

\* The wall clock is set back (Date.now() is not monotonic).
ClockBack ==
    /\ \E t \in ClockValues : t >= 0 /\ t < now /\ now' = t
    /\ UNCHANGED <<calls, env, videos, res, poll>>

-----------------------------------------------------------------------------
(* A polling session: one call of a strategy *)

\* What client.checkStatus resolves with: the three statuses, another string,
\* and undefined.
StatusValues == {"pending", "completed", "error", "processing", Undefined}

\* What client.checkStatus throws.
CheckErrors ==
    {"Error checking status: Video not found", "Error checking status: Network Error"}

\* The answer to the status check in flight, once the server has given it.
NoReply == [kind |-> "none", value |-> ""]
OkReply(status) == [kind |-> "ok", value |-> status]
ErrorReply(error) == [kind |-> "error", value |-> error]

\* The options of expectedTimeStrategy after destructuring.
NoConfig ==
    [expectedCompletionTime |-> 0,
     coefficients |-> [a |-> Number(0), b |-> Number(0), c |-> Number(0)],
     minimumInterval |-> 0, maximumInterval |-> 0, jobStartTime |-> 0]

\* promise: the state of the promise the strategy returns ("none" before the
\* call); outstanding: checkStatus calls awaited; timers: setTimeout calls that
\* have not fired; checks: checkStatus calls made so far; status: the last
\* status a check resolved with; waits: the delays handed to setTimeout so far;
\* elapsedTime, timeRemaining: the values poll() of expectedTimeStrategy
\* computed last; error: what the catch block of poll() caught.
NoPoll ==
    [strategy |-> "none", videoID |-> Undefined,
     promise |-> "none", result |-> "none",
     outstanding |-> 0, timers |-> 0, fireAt |-> Number(0),
     checks |-> 0, status |-> "none", reply |-> NoReply, waits |-> <<>>,
     initialInterval |-> 0, stableInterval |-> 0, interval |-> 0,
     config |-> NoConfig, elapsedTime |-> 0, timeRemaining |-> 0,
     error |-> "none"]

\* Every outcome resolves the promise.
SettleResolved(p, state, value) ==
    IF p.promise = "pending" THEN [p EXCEPT !.promise = "resolved", !.result = value]
    ELSE p

\* resolve(value) or reject(reason): a settled promise stays as it is.
Settle(p, state, value) ==
    IF p.promise = "pending" THEN [p EXCEPT !.promise = state, !.result = value]
    ELSE p

\* poll(): client.checkStatus(videoID) is called and awaited.
CallCheckStatus(p) ==
    [p EXCEPT !.outstanding = @ + 1, !.checks = @ + 1]

\* The awaited checkStatus call has settled.
CheckSettled(p) == [p EXCEPT !.outstanding = @ - 1, !.reply = NoReply]

\* A call that arms two timers for one wait.
SetTimeoutTwice(p, interval) ==
    [p EXCEPT !.timers = @ + 2,
              !.fireAt = Plus(Number(now), interval),
              !.waits = Append(@, interval)]

\* setTimeout(poll, interval), interval a number.
SetTimeout(p, interval) ==
    [p EXCEPT !.timers = @ + 1,
              !.fireAt = Plus(Number(now), interval),
              !.waits = Append(@, interval)]

-----------------------------------------------------------------------------
(* exponentialStrategy(client, videoID, options) *)

DefaultInitialInterval == 1000
DefaultStableInterval == 8000

\* x || dflt for a number option; an option left out is passed as 0, which
\* is falsy as undefined is.
OrElse(x, dflt) == IF x = 0 THEN dflt ELSE x

Min(a, b) == IF a <= b THEN a ELSE b

\* The values options.initialInterval and options.stableInterval take.
IntervalOptions == {0, 1, 2, 3, DefaultInitialInterval}

\* interval = Math.min(interval * 2, stableInterval)
NextInterval(interval, stableInterval) == Min(interval * 2, stableInterval)

\* setTimeout(poll, interval) of the exponential strategy; poll.waits keeps
\* the delays as integers.
ExponentialWait(p) ==
    [SetTimeout(p, Number(p.interval)) EXCEPT !.waits = Append(p.waits, p.interval)]

\* A call that waits for initialInterval before its first check.
ExponentialStrategyWaitsFirst(videoID, initialOption, stableOption) ==
    /\ poll.strategy = "none"
    /\ poll' = ExponentialWait(
                 [NoPoll EXCEPT
                    !.strategy = "exponential",
                    !.videoID = videoID,
                    !.promise = "pending",
                    !.initialInterval = OrElse(initialOption, DefaultInitialInterval),
                    !.stableInterval = OrElse(stableOption, DefaultStableInterval),
                    !.interval = OrElse(initialOption, DefaultInitialInterval)])
    /\ UNCHANGED <<calls, env, videos, now, res>>

\* The call itself: the options are read and poll() issues the first check.
ExponentialStrategy(videoID, initialOption, stableOption) ==
    /\ poll.strategy = "none"
    /\ poll' = CallCheckStatus(
                 [NoPoll EXCEPT
                    !.strategy = "exponential",
                    !.videoID = videoID,
                    !.promise = "pending",
                    !.initialInterval = OrElse(initialOption, DefaultInitialInterval),
                    !.stableInterval = OrElse(stableOption, DefaultStableInterval),
                    !.interval = OrElse(initialOption, DefaultInitialInterval)])
    /\ UNCHANGED <<calls, env, videos, now, res>>

\* A loop that settles the promise and goes on polling all the same: the
\* timer is set after every status.
PollReturnsAndGoesOn(status) ==
    LET p == [CheckSettled(poll) EXCEPT !.status = status]
        q == IF status = "completed" THEN Settle(p, "resolved", "completed")
             ELSE IF status = "error"
             THEN Settle(p, "rejected", "Error in video translation.")
             ELSE p
    IN  /\ poll.strategy = "exponential"
        /\ poll.outstanding > 0
        /\ Len(poll.waits) < MaxPolls
        /\ poll' = [ExponentialWait(q) EXCEPT
                      !.interval = NextInterval(@, poll.stableInterval)]
        /\ UNCHANGED <<calls, env, videos, now, res>>

\* await client.checkStatus(videoID) resolves with `status`: 'completed'
\* resolves the promise, 'error' rejects it, and anything else calls
\* setTimeout(poll, interval) and then doubles the interval up to
\* stableInterval.
PollReturns(status) ==
    LET p == [CheckSettled(poll) EXCEPT !.status = status]
    IN  /\ poll.strategy = "exponential"
        /\ poll.outstanding > 0
        /\ IF status = "completed"
           THEN poll' = Settle(p, "resolved", "completed")
           ELSE IF status = "error"
           THEN poll' = Settle(p, "rejected", "Error in video translation.")
           ELSE /\ Len(poll.waits) < MaxPolls
                /\ poll' = [ExponentialWait(p) EXCEPT
                              !.interval = NextInterval(@, poll.stableInterval)]
        /\ UNCHANGED <<calls, env, videos, now, res>>

\* A catch block that schedules another check after the wait.
PollThrowsRetries(error) ==
    /\ poll.strategy = "exponential"
    /\ poll.outstanding > 0
    /\ Len(poll.waits) < MaxPolls
    /\ poll' = ExponentialWait([CheckSettled(poll) EXCEPT !.error = error])
    /\ UNCHANGED <<calls, env, videos, now, res>>

\* await client.checkStatus(videoID) throws: reject(error).
PollThrows(error) ==
    /\ poll.strategy = "exponential"
    /\ poll.outstanding > 0
    /\ poll' = Settle([CheckSettled(poll) EXCEPT !.error = error], "rejected", error)
    /\ UNCHANGED <<calls, env, videos, now, res>>

\* A timer whose callback is lost: it fires and poll() is not called.
TimerDropped ==
    /\ poll.timers > 0
    /\ poll' = [poll EXCEPT !.timers = @ - 1]
    /\ UNCHANGED <<calls, env, videos, now, res>>

\* A timer that stays armed after it fires, as one of setInterval does.
TimerRepeats ==
    /\ poll.timers > 0
    /\ poll' = CallCheckStatus(poll)
    /\ UNCHANGED <<calls, env, videos, now, res>>

\* A timer fires and poll() issues the next check.
TimerFires ==
    /\ poll.timers > 0
    /\ poll' = CallCheckStatus([poll EXCEPT !.timers = @ - 1])
    /\ UNCHANGED <<calls, env, videos, now, res>>

-----------------------------------------------------------------------------
(* expectedTimeStrategy(client, videoID, options) *)

DefaultMinimumInterval == 500
DefaultMaximumInterval == 3000

\* coefficients = { a: 1 / 30000, b: 0.01, c: 500 }
DefaultCoefficients == [a |-> Num(1, 30000), b |-> Num(1, 100), c |-> Number(500)]

\* A property of `options`: left out, or given with a value.
Absent == [given |-> FALSE, v |-> 0]
Given(v) == [given |-> TRUE, v |-> v]

\* const { x = dflt } = options: the default stands in for undefined only.
Destructured(option, dflt) == IF option.given THEN option.v ELSE dflt

Coefficients(a, b, c) == [a |-> a, b |-> b, c |-> c]

Options(expectedCompletionTime, coefficients, minimumInterval, maximumInterval, jobStartTime) ==
    [expectedCompletionTime |-> expectedCompletionTime,
     coefficients |-> coefficients,
     minimumInterval |-> minimumInterval,
     maximumInterval |-> maximumInterval,
     jobStartTime |-> jobStartTime]

\* The options a caller passes: none at all, an expected time of 0, the
\* defaults, a curve that crosses both bounds, a constant above the minimum,
\* a negative a, minimumInterval above maximumInterval, a fractional a, a
\* minimumInterval of 0, and minimumInterval twice maximumInterval.
ExpectedTimeOptions ==
    <<Options(Absent, Absent, Absent, Absent, Absent),
      Options(Given(0), Absent, Absent, Absent, Given(0)),
      Options(Given(2), Absent, Absent, Absent, Absent),
      Options(Given(3), Given(Coefficients(Number(1), Number(1), Number(0))),
              Given(1), Given(5), Given(0)),
      Options(Given(2), Given(Coefficients(Number(0), Number(0), Number(2))),
              Given(1), Given(3), Absent),
      Options(Given(2), Given(Coefficients(Number(-1), Number(0), Number(3))),
              Given(1), Given(5), Given(0)),
      Options(Given(2), Given(Coefficients(Number(1), Number(1), Number(0))),
              Given(3), Given(2), Given(1)),
      Options(Given(2), Given(Coefficients(Num(1, 2), Number(0), Number(1))),
              Given(1), Given(3), Absent),
      Options(Given(2), Given(Coefficients(Number(1), Number(0), Number(0))),
              Given(0), Given(3), Given(0)),
      Options(Given(2), Given(Coefficients(Number(1), Number(1), Number(0))),
              Given(4), Given(2), Given(0))>>

\* A test that lets every value through.
MissingNever(expectedCompletionTime) == FALSE

\* !expectedCompletionTime, for a number; undefined is kept as 0, which is
\* falsy as well and is used nowhere else.
Missing(expectedCompletionTime) == expectedCompletionTime = 0

\* currentTime - jobStartTime
ElapsedTime(config, currentTime) == currentTime - config.jobStartTime

\* The time remaining without its floor of 0.
TimeRemainingUnfloored(config, elapsedTime) ==
    config.expectedCompletionTime - elapsedTime

\* The time already spent in place of the time remaining.
TimeRemainingElapsed(config, elapsedTime) ==
    IF elapsedTime > 0 THEN elapsedTime ELSE 0

\* Math.max(0, expectedCompletionTime - elapsedTime)
TimeRemaining(config, elapsedTime) ==
    LET remaining == config.expectedCompletionTime - elapsedTime
    IN  IF remaining > 0 THEN remaining ELSE 0

\* a * timeRemaining ** 2 + b * timeRemaining + c
RawInterval(coefficients, timeRemaining) ==
    Reduce(Plus(Plus(Times(coefficients.a, Number(timeRemaining * timeRemaining)),
                     Times(coefficients.b, Number(timeRemaining))),
                coefficients.c))

\* The upper bound alone.
ClampUpperOnly(interval, minimumInterval, maximumInterval) ==
    MathMin(interval, Number(maximumInterval))

\* The lower bound alone.
ClampLowerOnly(interval, minimumInterval, maximumInterval) ==
    MathMax(Number(minimumInterval), interval)

\* Math.max(minimumInterval, Math.min(interval, maximumInterval))
Clamp(interval, minimumInterval, maximumInterval) ==
    MathMax(Number(minimumInterval), MathMin(interval, Number(maximumInterval)))

\* The interval poll() computes from the time remaining.
ExpectedTimeInterval(config, timeRemaining) ==
    Clamp(RawInterval(config.coefficients, timeRemaining),
          config.minimumInterval, config.maximumInterval)

\* The call itself: the options are destructured, a missing expected time
\* throws (the async function's promise is rejected), otherwise poll() issues
\* the first check.
ExpectedTimeStrategy(videoID, options) ==
    LET config ==
            [expectedCompletionTime |-> Destructured(options.expectedCompletionTime, 0),
             coefficients |-> Destructured(options.coefficients, DefaultCoefficients),
             minimumInterval |->
                 Destructured(options.minimumInterval, DefaultMinimumInterval),
             maximumInterval |->
                 Destructured(options.maximumInterval, DefaultMaximumInterval),
             jobStartTime |-> Destructured(options.jobStartTime, now)]
        called == [NoPoll EXCEPT !.strategy = "expectedTime",
                                 !.videoID = videoID,
                                 !.promise = "pending",
                                 !.config = config]
    IN  /\ poll.strategy = "none"
        /\ IF Missing(config.expectedCompletionTime)
           THEN poll' = Settle(called, "rejected",
                               "Expected completion time must be provided.")
           ELSE poll' = CallCheckStatus(called)
        /\ UNCHANGED <<calls, env, videos, now, res>>

\* await client.checkStatus(videoID) resolves with `status`: 'completed'
\* resolves the promise, 'error' rejects it, and anything else reads the
\* clock, computes the interval and calls setTimeout(poll, interval).
ExpectedTimePollReturns(status) ==
    LET p == [CheckSettled(poll) EXCEPT !.status = status]
        elapsedTime == ElapsedTime(poll.config, now)
        timeRemaining == TimeRemaining(poll.config, elapsedTime)
    IN  /\ poll.strategy = "expectedTime"
        /\ poll.outstanding > 0
        /\ IF status = "completed"
           THEN poll' = Settle(p, "resolved", "completed")
           ELSE IF status = "error"
           THEN poll' = Settle(p, "rejected", "Error in video translation.")
           ELSE /\ Len(poll.waits) < MaxPolls
                /\ poll' = SetTimeout(
                             [p EXCEPT !.elapsedTime = elapsedTime,
                                       !.timeRemaining = timeRemaining],
                             ExpectedTimeInterval(poll.config, timeRemaining))
        /\ UNCHANGED <<calls, env, videos, now, res>>

\* await client.checkStatus(videoID) throws: reject(error).
ExpectedTimePollThrows(error) ==
    /\ poll.strategy = "expectedTime"
    /\ poll.outstanding > 0
    /\ poll' = Settle([CheckSettled(poll) EXCEPT !.error = error], "rejected", error)
    /\ UNCHANGED <<calls, env, videos, now, res>>

-----------------------------------------------------------------------------
(* The server alone *)

Init ==
    /\ env \in Environments
    /\ videos = <<>>
    /\ now = 0
    /\ res = NoResponse
    /\ poll = NoPoll
    /\ calls = NoCalls

Next ==
    \/ Create
    \/ \E videoID \in VideoIDs : GetStatus(videoID)
    \/ Tick
    \/ ClockBack

Spec == Init /\ [][Next]_vars

-----------------------------------------------------------------------------
(* One call of exponentialStrategy against any client *)

InitExponential ==
    /\ env = Environment(Unset, Unset, Unset)
    /\ videos = <<>>
    /\ now = 0
    /\ res = NoResponse
    /\ poll = NoPoll
    /\ calls = NoCalls

NextExponential ==
    \/ \E initialOption \in IntervalOptions, stableOption \in IntervalOptions :
           ExponentialStrategy("a", initialOption, stableOption)
    \/ \E status \in StatusValues : PollReturns(status)
    \/ \E error \in CheckErrors : PollThrows(error)
    \/ TimerFires

SpecExponential == InitExponential /\ [][NextExponential]_vars

-----------------------------------------------------------------------------
(* One call of either strategy against any client, under a clock that only
   moves forward, as the one timers run by does *)

NextStrategies ==
    \/ \E initialOption \in IntervalOptions, stableOption \in IntervalOptions :
           ExponentialStrategy("a", initialOption, stableOption)
    \/ \E status \in StatusValues : PollReturns(status)
    \/ \E error \in CheckErrors : PollThrows(error)
    \/ \E i \in DOMAIN ExpectedTimeOptions :
           ExpectedTimeStrategy("a", ExpectedTimeOptions[i])
    \/ \E status \in StatusValues : ExpectedTimePollReturns(status)
    \/ \E error \in CheckErrors : ExpectedTimePollThrows(error)
    \/ TimerFires
    \/ Tick

SpecStrategies == InitExponential /\ [][NextStrategies]_vars

-----------------------------------------------------------------------------
(* Two clients that send one POST /create each, at any time and in any order,
   to a server that also answers status requests *)

NextConcurrent ==
    \/ \E c \in Clients, videoID \in VideoIDs : SendCreate(c, videoID)
    \/ \E c \in Clients : HandleCreate(c)
    \/ \E videoID \in VideoIDs : GetStatus(videoID)
    \/ Tick

SpecConcurrent == Init /\ [][NextConcurrent]_vars

-----------------------------------------------------------------------------
(* A polling session against the server: VideoTranslationClient.checkStatus
   sends GET /status, timers fire when they are due, time advances *)

\* The server handles the GET /status request of the check in flight;
\* checkStatus will return response.data.result, or throw for a 404.
ServerAnswers ==
    /\ poll.outstanding > 0
    /\ poll.reply = NoReply
    /\ GetStatusHandler(poll.videoID)
    /\ poll' = [poll EXCEPT !.reply =
                  IF res'.code = 200 THEN OkReply(res'.body)
                  ELSE ErrorReply("Error checking status: Video not found")]
    /\ UNCHANGED <<calls, env, now>>

\* The answer reaches the strategy: await client.checkStatus(videoID) resolves.
ClientReturns ==
    \E status \in StatusValues :
        /\ poll.reply = OkReply(status)
        /\ PollReturns(status) \/ ExpectedTimePollReturns(status)

\* The answer reaches the strategy: await client.checkStatus(videoID) throws.
ClientThrows ==
    \E error \in CheckErrors :
        /\ poll.reply = ErrorReply(error)
        /\ PollThrows(error) \/ ExpectedTimePollThrows(error)

\* A timer fires no earlier than the delay it was set with.
TimerDue ==
    /\ LessEq(poll.fireAt, Number(now))
    /\ TimerFires

\* Time advances to the instant the pending timer is due at.
TickToTimer ==
    /\ poll.timers > 0
    /\ now < MathCeil(poll.fireAt)
    /\ now' = MathCeil(poll.fireAt)
    /\ UNCHANGED <<calls, env, videos, res, poll>>

\* Servers whose jobs take a few ticks, so that a session is followed to its
\* end within MaxPolls waits.
SystemEnvironments ==
    {Environment(SetTo(<<"0">>), SetTo(<<"0">>), SetTo(<<"0">>)),
     Environment(SetTo(<<"2">>), SetTo(<<"1">>), Unset)}

\* The options whose waits are at least 1: a timer set with less still waits
\* for the clock to move.
SystemOptions ==
    {i \in DOMAIN ExpectedTimeOptions :
        Destructured(ExpectedTimeOptions[i].minimumInterval, DefaultMinimumInterval) >= 1}

InitSystem ==
    /\ env \in SystemEnvironments
    /\ videos = <<>>
    /\ now = 0
    /\ res = NoResponse
    /\ poll = NoPoll
    /\ calls = NoCalls

NextSystem ==
    \/ \E r1 \in MathRandom, r2 \in MathRandom : CreateJob("a", r1, r2)
    \/ \E initialOption \in IntervalOptions, stableOption \in IntervalOptions :
           ExponentialStrategy("a", initialOption, stableOption)
    \/ \E i \in SystemOptions : ExpectedTimeStrategy("a", ExpectedTimeOptions[i])
    \/ ServerAnswers
    \/ ClientReturns
    \/ ClientThrows
    \/ TimerDue
    \/ TickToTimer
    \/ Tick

\* What a session waits for next: the server's answer, the delivery of an
\* answer, the clock reaching the instant its timer is due at, or the due
\* timer firing. A session waits for one of them at a time.
SessionStep ==
    ServerAnswers \/ ClientReturns \/ ClientThrows \/ TimerDue \/ TickToTimer

\* The server answers, answers are delivered, time advances and due timers
\* fire: the step a session waits for is eventually taken.
SpecSystem ==
    /\ InitSystem
    /\ [][NextSystem]_vars
    /\ WF_vars(SessionStep)

-----------------------------------------------------------------------------
(* The same session with status checks that take no time and timers that
   fire at the instant they are due *)

\* Nothing is left to happen at this instant: no check is in flight and no
\* timer is due.
Quiet ==
    /\ poll.outstanding = 0
    /\ ~(poll.timers > 0 /\ LessEq(poll.fireAt, Number(now)))

\* Time passes, not beyond the instant the pending timer is due at.
TickPunctual ==
    /\ Quiet
    /\ Tick
    /\ poll.timers > 0 => now' <= MathCeil(poll.fireAt)

NextPunctual ==
    \/ \E r1 \in MathRandom, r2 \in MathRandom : CreateJob("a", r1, r2)
    \/ \E initialOption \in IntervalOptions, stableOption \in IntervalOptions :
           ExponentialStrategy("a", initialOption, stableOption)
    \/ \E i \in SystemOptions : ExpectedTimeStrategy("a", ExpectedTimeOptions[i])
    \/ ServerAnswers
    \/ ClientReturns
    \/ ClientThrows
    \/ TimerDue
    \/ TickToTimer
    \/ TickPunctual

SpecPunctual == InitSystem /\ [][NextPunctual]_vars

-----------------------------------------------------------------------------
(* Properties of the server *)

\* A request handler has just run and changed the response or the table.
HandlerStep == <<res, videos>>' # <<res, videos>>

\* The configured error rate is the integer k.
ErrorRateIs(k) == ToNumber(ERROR_RATE).n = k * ToNumber(ERROR_RATE).d

\* C1: a job created with status 'error' keeps it for ever, and every status
\* check of it answers 'error', whatever the time.
ErrorNeverCompletes ==
    /\ [](res.op = "status" /\ res.videoID \in DOMAIN videos
            /\ videos[res.videoID].status = "error"
          => res.body = "error")
    /\ [][\A v \in DOMAIN videos :
            videos[v].status = "error" => videos'[v].status = "error"]_vars

\* A status check of an 'error' job answered 'error' at or after its deadline.
ErrorAfterDeadline ==
    /\ res.op = "status"
    /\ res.videoID \in DOMAIN videos
    /\ res.body = "error"
    /\ res.at >= videos[res.videoID].startTime + videos[res.videoID].delay

\* C2: once a status check has answered 'completed' for a job, the job stays
\* 'completed' and every later status check of it answers 'completed', also
\* when the clock reads less than before.
CompletedIsPermanent ==
    [][\A v \in DOMAIN videos :
          \/ videos[v].status = "completed"
          \/ (res.op = "status" /\ res.videoID = v /\ res.body = "completed")
          => /\ videos'[v].status = "completed"
             /\ (res'.op = "status" /\ res'.videoID = v => res'.body = "completed")]_vars

\* A status check answered 'completed' while the clock read a time before the
\* job's deadline.
CompletedBeforeDeadline ==
    /\ res.op = "status"
    /\ res.videoID \in DOMAIN videos
    /\ res.body = "completed"
    /\ res.at < videos[res.videoID].startTime + videos[res.videoID].delay

\* C3: a status check of a 'pending' job answers 'completed' if the elapsed
\* time has reached the job's delay and 'pending' if it has not.
PendingCompletesAtDelay ==
    [][\A v \in DOMAIN videos :
          /\ videos[v].status = "pending"
          /\ HandlerStep
          /\ res'.op = "status"
          /\ res'.videoID = v
          => res'.body = IF res'.at - videos[v].startTime >= videos[v].delay
                         THEN "completed"
                         ELSE "pending"]_vars

\* A job with delay 0 answered 'completed' at the very instant of its creation.
CompletedAtOnce ==
    /\ res.op = "status"
    /\ res.videoID \in DOMAIN videos
    /\ res.body = "completed"
    /\ videos[res.videoID].delay = 0
    /\ res.at = videos[res.videoID].startTime

\* C4: creating a job under an ID of the table is refused as a duplicate and
\* leaves the table as it was.
DuplicateCreateRejected ==
    [][\A v \in DOMAIN videos :
          HandlerStep /\ res'.op = "create" /\ res'.videoID = v
          => /\ res'.code = 400
             /\ res'.body = "already exists"
             /\ videos' = videos]_vars

\* A duplicate was refused some time after the job was created.
DuplicateRefusedLater ==
    /\ res.op = "create"
    /\ res.code = 400
    /\ res.videoID \in DOMAIN videos
    /\ res.at > videos[res.videoID].startTime

\* C5: a status check of an ID that was never created answers 404, and
\* creating a job under a non-empty ID leaves a job under that ID.
UnknownIdNotFound ==
    /\ res.op = "status" /\ res.videoID \notin DOMAIN videos => res.code = 404
    /\ res.op = "create" /\ res.videoID \notin {"", Undefined}
       => res.code = 200 \/ res.videoID \in DOMAIN videos

NoErrorAtRateZero ==
    ErrorRateIs(0) => \A v \in DOMAIN videos : videos[v].status # "error"

\* C8: with an error rate of 1 every job has status 'error' from its creation
\* on and every status check of it answers 'error'.
AlwaysErrorAtRateOne ==
    ErrorRateIs(1) =>
        /\ \A v \in DOMAIN videos : videos[v].status = "error"
        /\ res.op = "status" /\ res.videoID \in DOMAIN videos => res.body = "error"

\* With an error rate of 1, a status check answered 'error' at or after the
\* job's deadline.
ErrorAtRateOne == ErrorRateIs(1) /\ ErrorAfterDeadline /\ DOMAIN videos = {"a", "b"}

\* C9: with MIN_DELAY <= MAX_DELAY every job's delay lies between the two.
DelayWithinRange ==
    ToNumber(MIN_DELAY).n <= ToNumber(MAX_DELAY).n =>
        \A v \in DOMAIN videos :
            /\ ToNumber(MIN_DELAY).n <= videos[v].delay
            /\ videos[v].delay <= ToNumber(MAX_DELAY).n

\* C22: no step removes a job or changes a job's startTime or delay; a step
\* that changes the table is either a GET /status that flips the status of
\* the job asked for from 'pending' to 'completed' and leaves every other
\* record as it was, or a POST /create answered 200 that adds a record under
\* an id that had none and leaves every existing record as it was.
JobRecordsAreFramed ==
    [][/\ \A v \in DOMAIN videos :
              /\ v \in DOMAIN videos'
              /\ videos'[v].startTime = videos[v].startTime
              /\ videos'[v].delay = videos[v].delay
       /\ videos' # videos =>
              \/ /\ res'.op = "status"
                 /\ res'.code = 200
                 /\ DOMAIN videos' = DOMAIN videos
                 /\ res'.videoID \in DOMAIN videos
                 /\ videos[res'.videoID].status = "pending"
                 /\ videos'[res'.videoID].status = "completed"
                 /\ \A v \in DOMAIN videos \ {res'.videoID} : videos'[v] = videos[v]
              \/ /\ res'.op = "create"
                 /\ res'.code = 200
                 /\ res'.videoID \notin DOMAIN videos
                 /\ DOMAIN videos' = DOMAIN videos \cup {res'.videoID}
                 /\ \A v \in DOMAIN videos : videos'[v] = videos[v]]_vars

\* Job "a" was created with a delay above 0 and GET /status has flipped it to
\* 'completed'; job "b", created later, has been stored since and is pending;
\* the last request was a GET /status for "a".
FlippedBesideLaterJob ==
    /\ DOMAIN videos = {"a", "b"}
    /\ videos["a"].delay > 0
    /\ videos["a"].status = "completed"
    /\ videos["b"].status = "pending"
    /\ videos["b"].startTime > videos["a"].startTime
    /\ res.op = "status"
    /\ res.videoID = "a"
    /\ res.body = "completed"

-----------------------------------------------------------------------------
(* Properties of the exponential strategy *)

RECURSIVE Pow2(_)
Pow2(k) == IF k = 0 THEN 1 ELSE 2 * Pow2(k - 1)

\* C10: the k-th wait of a session is min(initialInterval * 2^(k-1),
\* stableInterval).
WaitsFollowClosedForm ==
    \A k \in 1..Len(poll.waits) :
        poll.waits[k] = Min(poll.initialInterval * Pow2(k - 1), poll.stableInterval)

\* C11: within one session the waits never decrease from one to the next and
\* no wait is longer than stableInterval, whatever the two options are.
WaitsGrowUpToStable ==
    \A k \in 1..Len(poll.waits) :
        /\ poll.waits[k] <= poll.stableInterval
        /\ k > 1 => poll.waits[k - 1] <= poll.waits[k]

-----------------------------------------------------------------------------
(* Properties of the expected-time strategy *)

\* The wait scheduled last, and the bounds of the session.
LastWait == poll.waits[Len(poll.waits)]
MinimumInterval == Number(poll.config.minimumInterval)
MaximumInterval == Number(poll.config.maximumInterval)

\* The session is one of expectedTimeStrategy and has scheduled a wait.
HasWaited == poll.strategy = "expectedTime" /\ poll.waits # <<>>

\* raw = a * timeRemaining^2 + b * timeRemaining + c of the wait scheduled last.
LastRaw ==
    LET t == Number(poll.timeRemaining)
        c == poll.config.coefficients
    IN  Reduce(Plus(Reduce(Plus(Times(c.a, Times(t, t)), Times(c.b, t))), c.c))

WaitsNeverIncrease ==
    /\ poll.strategy = "expectedTime"
    /\ poll.config.coefficients.a.n >= 0
    /\ poll.config.coefficients.b.n >= 0
    => \A k \in 2..Len(poll.waits) : LessEq(poll.waits[k], poll.waits[k - 1])

\* A session with a >= 0 and b >= 0 whose waits went down twice.
WaitsWentDown ==
    /\ poll.strategy = "expectedTime"
    /\ poll.config.coefficients.a.n >= 0
    /\ poll.config.coefficients.b.n >= 0
    /\ Len(poll.waits) >= 3
    /\ ~LessEq(poll.waits[1], poll.waits[2])
    /\ ~LessEq(poll.waits[2], poll.waits[3])

-----------------------------------------------------------------------------
(* Properties of both strategies *)

\* C15: the promise is resolved only with 'completed' and only when the last
\* status check returned 'completed'; once a status check has returned
\* 'error' the promise is rejected with 'Error in video translation.', which
\* is none of the errors a failed check throws, and is never resolved.
ResultMatchesStatus ==
    /\ poll.promise = "resolved" =>
            poll.result = "completed" /\ poll.status = "completed"
    /\ poll.status = "completed" => poll.promise = "resolved"
    /\ poll.status = "error" =>
            /\ poll.promise = "rejected"
            /\ poll.result = "Error in video translation."
            /\ poll.result \notin CheckErrors

\* A session of expectedTimeStrategy rejected on a status of 'error' after
\* two waits.
RejectedOnErrorStatus ==
    /\ poll.strategy = "expectedTime"
    /\ poll.status = "error"
    /\ poll.promise = "rejected"
    /\ Len(poll.waits) = 2

\* C16: when a status check throws, the promise is rejected with the error
\* thrown, no check is outstanding and no timer is pending; from then on the
\* session does nothing: no further check, no further wait.
FailedCheckIsLast ==
    /\ [](poll.error # "none" =>
            /\ poll.promise = "rejected"
            /\ poll.result = poll.error
            /\ poll.outstanding = 0
            /\ poll.timers = 0)
    /\ [][poll.error # "none" => poll' = poll]_vars

\* A session of exponentialStrategy rejected with the error of its third
\* status check, the 404 of an unknown id.
RejectedOnFailedCheck ==
    /\ poll.strategy = "exponential"
    /\ poll.error = "Error checking status: Video not found"
    /\ poll.promise = "rejected"
    /\ poll.checks = 3
    /\ Len(poll.waits) = 2

\* C17: a call without expectedCompletionTime is rejected with the
\* configuration error, and the session never issues a status check nor
\* schedules a wait.
MissingExpectedTimeRejected ==
    poll.strategy = "expectedTime" /\ poll.config.expectedCompletionTime = 0 =>
        /\ poll.promise = "rejected"
        /\ poll.result = "Expected completion time must be provided."
        /\ poll.checks = 0
        /\ poll.outstanding = 0
        /\ poll.timers = 0
        /\ poll.waits = <<>>

\* expectedTimeStrategy was called with options = {} after the clock had
\* moved (jobStartTime took its default, the time of the call), and the
\* promise is rejected with no check made.
RejectedWithoutExpectedTime ==
    /\ poll.strategy = "expectedTime"
    /\ poll.config.expectedCompletionTime = 0
    /\ poll.config.jobStartTime > 0
    /\ poll.promise = "rejected"
    /\ poll.checks = 0

\* C20: at most one status check is outstanding, at most one timer is
\* pending, and never both; while the promise is pending exactly one of the
\* two is, and the checks made are the waits scheduled plus the check
\* outstanding: check, result, wait, check, ...
ChecksAndWaitsAlternate ==
    /\ poll.outstanding <= 1
    /\ poll.timers <= 1
    /\ ~(poll.outstanding > 0 /\ poll.timers > 0)
    /\ poll.promise = "pending" =>
            /\ poll.outstanding + poll.timers = 1
            /\ poll.checks = Len(poll.waits) + poll.outstanding

\* The third status check of a session is outstanding, after two waits.
ThirdCheckOutstanding ==
    /\ poll.promise = "pending"
    /\ poll.outstanding = 1
    /\ poll.checks = 3
    /\ Len(poll.waits) = 2

\* A status check has just returned a status: one check fewer is awaited and
\* nothing was caught.
CheckReturned ==
    /\ poll.outstanding > 0
    /\ poll'.outstanding = poll.outstanding - 1
    /\ poll'.error = poll.error

\* The interval the active strategy computes at this instant.
ComputedInterval ==
    IF poll.strategy = "exponential" THEN Number(poll.interval)
    ELSE ExpectedTimeInterval(poll.config,
             TimeRemaining(poll.config, ElapsedTime(poll.config, now)))

\* C21: when a status check returns 'pending' or any value other than
\* 'completed' and 'error', the promise stays pending, no check is made in
\* that step, and exactly one timer is set, for the interval the active
\* strategy computes, due that long after the present instant; the timer
\* is the only one pending.
OtherStatusSchedulesOneCheck ==
    [][CheckReturned /\ poll'.status \notin {"completed", "error"} =>
          /\ poll.promise = "pending"
          /\ poll'.promise = "pending"
          /\ poll'.result = "none"
          /\ poll'.checks = poll.checks
          /\ poll'.outstanding = 0
          /\ poll'.timers = poll.timers + 1
          /\ poll'.timers = 1
          /\ Len(poll'.waits) = Len(poll.waits) + 1
          /\ SameNumber(IF poll.strategy = "exponential"
                        THEN Number(poll'.waits[Len(poll'.waits)])
                        ELSE poll'.waits[Len(poll'.waits)],
                        ComputedInterval)
          /\ SameNumber(poll'.fireAt, Plus(Number(now), ComputedInterval))]_vars

\* A session of expectedTimeStrategy whose second check returned a status
\* that is none of the three ('processing'): it waits for its second timer.
WaitsAfterOtherStatus ==
    /\ poll.strategy = "expectedTime"
    /\ poll.status = "processing"
    /\ poll.promise = "pending"
    /\ poll.timers = 1
    /\ poll.checks = 2
    /\ Len(poll.waits) = 2

Settled == poll.promise \in {"resolved", "rejected"}

\* C23: a settled session has no status check outstanding and no timer
\* pending, and no step changes it any more: it makes no further check, sets
\* no further timer, and its promise keeps the state and the value it was
\* settled with.
SettledLoopIsDone ==
    /\ [](Settled => poll.outstanding = 0 /\ poll.timers = 0)
    /\ [][Settled =>
            /\ poll'.checks = poll.checks
            /\ poll'.waits = poll.waits
            /\ poll'.promise = poll.promise
            /\ poll'.result = poll.result
            /\ poll' = poll]_vars

\* A session of exponentialStrategy resolved at its third status check, with
\* nothing outstanding and no timer pending, and the clock has moved since.
ResolvedAndIdle ==
    /\ poll.strategy = "exponential"
    /\ poll.promise = "resolved"
    /\ poll.checks = 3
    /\ Len(poll.waits) = 2
    /\ poll.outstanding = 0
    /\ poll.timers = 0
    /\ now > 0

-----------------------------------------------------------------------------
(* Properties of concurrent requests *)

\* C19: when both clients have sent a create call with the same id while
\* neither was answered, exactly one of the two succeeds, the other is refused
\* as a duplicate, and the job stored under the id is the one the successful
\* call wrote.
ExactlyOneCreateSucceeds ==
    \A c \in Clients, d \in Clients :
        /\ c # d
        /\ calls[c].state = "done"
        /\ calls[d].state = "done"
        /\ calls[c].videoID = calls[d].videoID
        /\ calls[c].videoID \notin {"", Undefined}
        => \/ calls[c].code = 400 /\ calls[d].code = 200
           \/ /\ calls[c].code = 200
              /\ calls[d].code = 400
              /\ calls[d].body = "already exists"
              /\ calls[c].videoID \in DOMAIN videos
              /\ videos[calls[c].videoID].startTime = calls[c].job.startTime
              /\ videos[calls[c].videoID].delay = calls[c].job.delay

-----------------------------------------------------------------------------
(* Termination *)

\* The session polls a job the server has, and no failed check is on its way.
PollsJob(statuses) ==
    /\ poll.promise = "pending"
    /\ poll.reply.kind # "error"
    /\ poll.videoID \in DOMAIN videos
    /\ videos[poll.videoID].status \in statuses

\* C18: a session that polls a job which is pending (or has completed)
\* eventually resolves with 'completed'; one that polls a job in error
\* eventually rejects with the translation error; every session eventually
\* settles.
LoopTerminates ==
    /\ PollsJob({"pending", "completed"})
          ~> (poll.promise = "resolved" /\ poll.result = "completed")
    /\ PollsJob({"error"})
          ~> (poll.promise = "rejected" /\ poll.result = "Error in video translation.")
    /\ (poll.promise = "pending") ~> (poll.promise \in {"resolved", "rejected"})

\* A session resolved with 'completed' after it found the job pending twice.
ResolvedAfterWaiting ==
    /\ poll.promise = "resolved"
    /\ poll.videoID \in DOMAIN videos
    /\ Len(poll.waits) = 2
    /\ poll.checks = 3


-----------------------------------------------------------------------------
(* The first status check *)

\* The job the session polls is stored and a GET /status at this instant
\* answers `status` for it: a job in error always answers 'error', a pending
\* one answers 'completed' from its deadline on.
JobAnswers(status) ==
    /\ poll.videoID \in DOMAIN videos
    /\ \E video \in {videos[poll.videoID]} :
          IF status = "error" THEN video.status = "error"
          ELSE \/ video.status = "completed"
               \/ video.status = "pending" /\ now - video.startTime >= video.delay

\* The session has made its first check and the server has not handled it.
FirstCheckSent ==
    /\ poll.promise = "pending"
    /\ poll.checks = 1
    /\ poll.outstanding = 1
    /\ poll.reply = NoReply

SettledAtFirstCheck(state, value) ==
    /\ poll.promise = state
    /\ poll.result = value
    /\ poll.checks = 1
    /\ poll.waits = <<>>
    /\ poll.timers = 0

\* C24: the step that calls a strategy issues the first status check in that
\* same step, at the instant of the call, with no wait scheduled and no timer
\* set; when the job is completed (or in error) at that first check, the
\* session resolves (or rejects) having made one check and scheduled no wait.
FirstCheckIsImmediate ==
    /\ [][poll.strategy = "none" /\ poll'.promise = "pending" =>
            /\ poll'.checks = 1
            /\ poll'.outstanding = 1
            /\ poll'.waits = <<>>
            /\ poll'.timers = 0
            /\ now' = now]_vars
    /\ (FirstCheckSent /\ JobAnswers("completed"))
          ~> SettledAtFirstCheck("resolved", "completed")
    /\ (FirstCheckSent /\ JobAnswers("error"))
          ~> SettledAtFirstCheck("rejected", "Error in video translation.")

\* A session of expectedTimeStrategy, called after the clock had moved,
\* resolved at its first check without a wait: the job's delay is 0, so it
\* was complete before the session began.
ResolvedAtFirstCheck ==
    /\ poll.strategy = "expectedTime"
    /\ SettledAtFirstCheck("resolved", "completed")
    /\ poll.videoID \in DOMAIN videos
    /\ videos[poll.videoID].delay = 0
    /\ poll.config.jobStartTime > 0


-----------------------------------------------------------------------------
(* Detection delay *)

\* The instant the elapsed time of the polled job reaches its delay.
Deadline == videos[poll.videoID].startTime + videos[poll.videoID].delay

\* The session found the job pending, waited, and has resolved; the last
\* GET /status the server handled, at res.at, is the check that resolved it.
DetectedByPolling ==
    /\ poll.promise = "resolved"
    /\ poll.result = "completed"
    /\ poll.waits # <<>>
    /\ poll.error = "none"

Max(a, b) == IF a >= b THEN a ELSE b

====
